---- MODULE Spec2Model ----
(***************************************************************************)
(* A model of src/PersonSearch.py: the identity matching engine of         *)
(* PersonSearch (name variations, URL handle extraction, scoring,          *)
(* de-duplication and ranking).  Python strings are TLA+ strings, read     *)
(* character by character with SubSeq.                                     *)
(***************************************************************************)
EXTENDS Integers, Sequences, FiniteSets, TLC

VARIABLES
    url, username, upc,                       \* extract_username_from_url
    parts, variations, npc,                   \* generate_name_variations
    name, name_variations, extra_keywords,    \* the target of a search
    wratio,                                   \* rapidfuzz's best score per text
    result, extracted_username, score, spc,   \* compute_score
    base,                                     \* score when line 374 is reached
    all_results, unique_results, scored_results, idx, returned, pc  \* search_person

urlVars == <<url, username, upc>>
nameVars == <<parts, variations, npc>>
targetVars == <<name, name_variations, extra_keywords, wratio>>
scoreVars == <<result, extracted_username, score, spc, base>>
searchVars == <<all_results, unique_results, scored_results, idx, returned, pc>>
vars == <<urlVars, nameVars, targetVars, scoreVars, searchVars>>

(***************************************************************************)
(* Bounds of the model.                                                    *)
(***************************************************************************)
\* the longest path, in segments, of the URLs handed to the extractor
MaxSegs == 2
\* the longest name part, in characters
MaxPartLen == 2
\* the most results the search providers return in one search
MaxResults == 3

(***************************************************************************)
(* Python's str operations.                                                *)
(***************************************************************************)
\* s[i-1:j] with Python's clamping of the slice to the string
Slice(s, i, j) ==
    LET a == IF i < 1 THEN 1 ELSE i
        b == IF j > Len(s) THEN Len(s) ELSE j
    IN  IF a > b THEN "" ELSE SubSeq(s, a, b)

\* s[i-1], or "" outside the string
Ch(s, i) == IF i >= 1 /\ i <= Len(s) THEN SubSeq(s, i, i) ELSE ""

UpperAlpha == "ABCDEFGHIJKLMNOPQRSTUVWXYZ"
LowerAlpha == "abcdefghijklmnopqrstuvwxyz"
DigitChars == "0123456789"

CharsOf(s) == {SubSeq(s, i, i) : i \in 1..Len(s)}
UpperLetters == CharsOf(UpperAlpha)
LowerLetters == CharsOf(LowerAlpha)
Digits == CharsOf(DigitChars)

\* one character of str.lower()
LowerOf == [c \in UpperLetters |->
               SubSeq(LowerAlpha, CHOOSE i \in 1..Len(UpperAlpha) : SubSeq(UpperAlpha, i, i) = c,
                                  CHOOSE i \in 1..Len(UpperAlpha) : SubSeq(UpperAlpha, i, i) = c)]
LowerChar(c) == IF c \in UpperLetters THEN LowerOf[c] ELSE c

RECURSIVE Lower(_)
\* str.lower()
Lower(s) ==
    IF s = "" THEN ""
    ELSE Lower(SubSeq(s, 1, Len(s) - 1)) \o LowerChar(SubSeq(s, Len(s), Len(s)))

\* str.isdigit(): non-empty and every character a digit
IsDigit(s) == s # "" /\ \A i \in 1..Len(s) : Ch(s, i) \in Digits

\* x in s, for strings
Contains(s, x) ==
    \E i \in 1..(Len(s) - Len(x) + 1) : Slice(s, i, i + Len(x) - 1) = x

\* the first index >= from of a character of cs in s, Len(s)+1 when none
FindAny(s, cs, from) ==
    LET hits == {i \in from..Len(s) : Ch(s, i) \in cs}
    IN  IF hits = {} THEN Len(s) + 1
        ELSE CHOOSE i \in hits : \A j \in hits : i <= j

RECURSIVE StripSlashes(_)
\* str.strip("/")
StripSlashes(s) ==
    IF s = "" THEN ""
    ELSE IF Ch(s, 1) = "/" THEN StripSlashes(Slice(s, 2, Len(s)))
    ELSE IF Ch(s, Len(s)) = "/" THEN StripSlashes(Slice(s, 1, Len(s) - 1))
    ELSE s

RECURSIVE Segments(_)
\* [s for s in path.split("/") if s]
Segments(path) ==
    IF path = "" THEN <<>>
    ELSE LET k == FindAny(path, {"/"}, 1)
             head == Slice(path, 1, k - 1)
             rest == Segments(Slice(path, k + 1, Len(path)))
         IN  IF head = "" THEN rest ELSE <<head>> \o rest

(***************************************************************************)
(* urllib.parse.urlparse, as far as extract_username_from_url reads it:    *)
(* the scheme, the netloc after "//", and the path up to "?" or "#".       *)
(***************************************************************************)
SchemeChars == LowerLetters \cup UpperLetters \cup Digits
                 \cup {"+", "-", "."}

AfterScheme(u) ==
    LET i == FindAny(u, {":"}, 1)
    IN  IF /\ i > 1 /\ i <= Len(u)
           /\ Ch(u, 1) \in LowerLetters \cup UpperLetters
           /\ \A j \in 1..(i - 1) : Ch(u, j) \in SchemeChars
        THEN Slice(u, i + 1, Len(u))
        ELSE u

HasNetloc(u) == Slice(AfterScheme(u), 1, 2) = "//"

\* parsed.netloc
Netloc(u) ==
    LET r == AfterScheme(u)
    IN  IF HasNetloc(u) THEN Slice(r, 3, FindAny(r, {"/", "?", "#"}, 3) - 1) ELSE ""

\* parsed.path
UrlPath(u) ==
    LET r == AfterScheme(u)
        s == IF HasNetloc(u) THEN Slice(r, FindAny(r, {"/", "?", "#"}, 3), Len(r)) ELSE r
    IN  Slice(s, 1, FindAny(s, {"?", "#"}, 1) - 1)

(***************************************************************************)
(* The regular expressions of extract_username_from_url.  A search result  *)
(* is the captured group, or NoMatch.                                      *)
(***************************************************************************)
NoMatch == [matched |-> FALSE, group |-> ""]
Match(g) == [matched |-> TRUE, group |-> g]

\* the greedy run [^/?]+ of s starting at index i ("" when there is none)
Run(s, i) == Slice(s, i, FindAny(s, {"/", "?"}, i) - 1)

\* re.search(lit ([^/?]+), s) for one of the literal prefixes lits: the
\* leftmost place where a literal is followed by a non-empty run
SearchAfter(lits, s) ==
    LET At(i) == {l \in lits : Slice(s, i, i + Len(l) - 1) = l /\ Run(s, i + Len(l)) # ""}
        hits == {i \in 1..Len(s) : At(i) # {}}
    IN  IF hits = {} THEN NoMatch
        ELSE LET i == CHOOSE h \in hits : \A g \in hits : h <= g
                 l == CHOOSE x \in At(i) : TRUE
             IN  Match(Run(s, i + Len(l)))

\* re.search(r"/([^/?]+)/?$", s): a slash, a run, an optional slash, the end
SearchLastSegment(s) ==
    LET Ends(i) == LET e == i + Len(Run(s, i + 1))
                   IN  /\ Ch(s, i) = "/"
                       /\ Run(s, i + 1) # ""
                       /\ \/ e = Len(s)
                          \/ e + 1 = Len(s) /\ Ch(s, e + 1) = "/"
        hits == {i \in 1..Len(s) : Ends(i)}
    IN  IF hits = {} THEN NoMatch
        ELSE Match(Run(s, 1 + CHOOSE h \in hits : \A g \in hits : h <= g))

\* re.search(r"^/([^/?]+)(?:\?|$)", s): the whole of s is one segment, or a
\* segment and then "?"
SearchOnlySegment(s) ==
    LET r == Run(s, 2)
        e == 1 + Len(r)
    IN  IF Ch(s, 1) = "/" /\ r # "" /\ (e = Len(s) \/ Ch(s, e + 1) = "?")
        THEN Match(r) ELSE NoMatch

\* re.sub(r"-[0-9a-z]+$", "", s): drop a last "-xyz" of lowercase
\* letters and digits
StripSuffix(s) ==
    LET dashes == {i \in 1..Len(s) : Ch(s, i) = "-"}
        d == CHOOSE i \in dashes : \A j \in dashes : j <= i
    IN  IF /\ dashes # {}
           /\ d < Len(s)
           /\ \A j \in (d + 1)..Len(s) :
                  Ch(s, j) \in Digits \cup LowerLetters
        THEN Slice(s, 1, d - 1) ELSE s

\* re.search(r"[a-z]", s)
HasLetter(s) == \E i \in 1..Len(s) : Ch(s, i) \in LowerLetters

(***************************************************************************)
(* extract_username_from_url.                                              *)
(***************************************************************************)
FacebookContent == {"/photos/", "/events/", "/groups/", "/posts/"}
InstagramContent == {"/p/", "/reel/", "/stories/", "/tv/"}
InstagramFirst == {"p/", "reel/", "stories/"}
skip_words == {"profile", "people", "pages", "public", "home", "watch", "marketplace"}
skip_segments == {"profile", "people", "pages", "public", "p", "reel", "stories",
                  "home", "watch", "marketplace", "events", "groups", "photos", "posts"}

\* the first pattern of a list whose capture passes ok, as a one-element
\* sequence; <<>> when the loop over the patterns ends without a return
RECURSIVE FirstAccepted(_, _)
FirstAccepted(captures, ok) ==
    IF captures = <<>> THEN <<>>
    ELSE LET m == Head(captures)
         IN  IF m.matched /\ ok[m.group] THEN <<m.group>>
             ELSE FirstAccepted(Tail(captures), ok)

\* the LinkedIn branch: <<handle>> when it returns, <<>> when it falls through
LinkedInBranch(path) ==
    LET p == "/" \o path
        raw == <<SearchAfter({"/in/"}, p), SearchAfter({"/pub/"}, p), SearchLastSegment(p)>>
        caps == [i \in 1..3 |->
                    IF raw[i].matched THEN Match(StripSuffix(raw[i].group)) ELSE NoMatch]
        ok == [u \in {caps[i].group : i \in 1..3} |-> u # "" /\ Len(u) > 1]
    IN  FirstAccepted(caps, ok)

\* the Facebook branch after the content-link test
FacebookBranch(path) ==
    LET p == "/" \o path
        caps == <<SearchOnlySegment(p), SearchAfter({"/people/"}, p),
                  SearchAfter({"/pages/", "/public/"}, p)>>
        ok == [u \in {caps[i].group : i \in 1..3} |->
                  u # "" /\ ~IsDigit(u) /\ u \notin skip_words /\ Len(u) > 1]
    IN  FirstAccepted(caps, ok)

\* the Instagram branch after the content-link test
InstagramBranch(path) ==
    LET segments == Segments(path)
    IN  IF /\ segments # <<>>
           /\ ~\E x \in InstagramFirst : Contains(x, segments[1])
           /\ segments[1] # "" /\ ~IsDigit(segments[1]) /\ Len(segments[1]) > 1
        THEN <<segments[1]>> ELSE <<>>

\* the generic rule: the last segment that can be a handle
GenericBranch(path) ==
    LET segments == Segments(path)
        good == {i \in 1..Len(segments) :
                    /\ segments[i] # ""
                    /\ ~IsDigit(segments[i])
                    /\ segments[i] \notin skip_segments
                    /\ Len(segments[i]) > 1
                    /\ HasLetter(segments[i])}
    IN  IF good = {} THEN ""
        ELSE segments[CHOOSE i \in good : \A j \in good : j <= i]

\* the content-link tests, made on the path stripped of its outer slashes
IsFacebookContent(path) == \E x \in FacebookContent : Contains(path, x)
IsInstagramContent(path) == \E x \in InstagramContent : Contains(path, x)

extract_username_from_url(u) ==
    IF u = "" THEN ""
    ELSE LET lowered == Lower(u)
             path == StripSlashes(UrlPath(lowered))
             domain == Netloc(lowered)
             branch ==
                 IF Contains(domain, "linkedin.com") THEN LinkedInBranch(path)
                 ELSE IF Contains(domain, "facebook.com") \/ Contains(domain, "fb.com")
                      THEN IF IsFacebookContent(path) THEN <<"">> ELSE FacebookBranch(path)
                 ELSE IF Contains(domain, "instagram.com")
                      THEN IF IsInstagramContent(path) THEN <<"">> ELSE InstagramBranch(path)
                 ELSE <<>>
         IN  IF branch # <<>> THEN branch[1] ELSE GenericBranch(path)

(***************************************************************************)
(* The URLs handed to the extractor: a scheme, a host, up to MaxSegs path  *)
(* segments and an optional trailing slash.                                *)
(***************************************************************************)
Hosts == {"www.linkedin.com", "facebook.com", "m.fb.com", "instagram.com", "example.com"}
Segs == {"in", "pub", "groups", "posts", "p", "reel", "tv", "people", "pages",
         "jane-doe", "jane-doe-3b2f1a9", "somegroup", "ABC123", "123", "j"}

RECURSIVE JoinPath(_)
JoinPath(segs) ==
    IF segs = <<>> THEN "" ELSE "/" \o Head(segs) \o JoinPath(Tail(segs))

Paths == {JoinPath(s) : s \in UNION {[1..n -> Segs] : n \in 0..MaxSegs}}
Urls == {"https://" \o h \o p \o t : h \in Hosts, p \in Paths, t \in {"", "/"}}

UrlInit ==
    /\ url \in Urls
    /\ username = ""
    /\ upc = "call"

Extract ==
    /\ upc = "call"
    /\ username' = extract_username_from_url(url)
    /\ upc' = "done"
    /\ UNCHANGED url
    /\ UNCHANGED <<nameVars, targetVars, scoreVars, searchVars>>

(***************************************************************************)
(* parse_name's result and generate_name_variations.                       *)
(***************************************************************************)
\* the dict parse_name returns for the parts HumanName found
NameParts(full, first, middle, last) ==
    [full |-> full, first |-> first, middle |-> middle, last |-> last,
     f_initial |-> IF first # "" THEN Ch(first, 1) ELSE "",
     m_initial |-> IF middle # "" THEN Ch(middle, 1) ELSE "",
     l_initial |-> IF last # "" THEN Ch(last, 1) ELSE ""]

_empty_name_parts(full) == NameParts(full, "", "", "")

separators == {"", ".", "-", "_"}

RECURSIVE Replace(_, _, _)
\* s.replace(c, by) for a one-character c
Replace(s, c, by) ==
    IF s = "" THEN ""
    ELSE (IF Ch(s, 1) = c THEN by ELSE Ch(s, 1)) \o Replace(Slice(s, 2, Len(s)), c, by)

\* the set candidates at the end of generate_name_variations
candidates(p) ==
    LET first == Lower(p.first)
        middle == Lower(p.middle)
        last == Lower(p.last)
        f_initial == Lower(p.f_initial)
        m_initial == Lower(p.m_initial)
        l_initial == Lower(p.l_initial)
        Pairs(a, b) == IF a # "" /\ b # ""
                       THEN UNION {{a \o sep \o b, b \o sep \o a} : sep \in separators}
                       ELSE {}
        Triples(cond, ms, a, c) ==
            IF cond
            THEN {a \o sep1 \o m \o sep2 \o c : sep1 \in separators, sep2 \in separators, m \in ms}
            ELSE {}
        full_lower == Lower(p.full)
    IN  (IF first # "" THEN {first} ELSE {})
        \cup (IF last # "" THEN {last} ELSE {})
        \cup (IF middle # "" THEN {middle} ELSE {})
        \cup Pairs(first, last)
        \cup Pairs(f_initial, last)
        \cup Pairs(first, l_initial)
        \cup Pairs(f_initial, l_initial)
        \cup Triples(first # "" /\ middle # "" /\ last # "", {middle, m_initial}, first, last)
        \cup Triples(f_initial # "" /\ middle # "" /\ last # "", {middle, m_initial},
                     f_initial, last)
        \cup Triples(first # "" /\ m_initial # "" /\ last # "", {m_initial}, first, last)
        \cup Triples(f_initial # "" /\ m_initial # "" /\ l_initial # "", {m_initial},
                     f_initial, l_initial)
        \cup (IF p.full # ""
              THEN {Replace(full_lower, " ", sep) : sep \in separators}
              ELSE {})
        \cup (IF first # "" /\ last # ""
              THEN {last \o sep \o first : sep \in separators}
              ELSE {})

RECURSIVE ListSome(_)
ListSome(S) ==
    IF S = {} THEN <<>>
    ELSE LET x == CHOOSE y \in S : TRUE IN <<x>> \o ListSome(S \ {x})

RECURSIVE ListFromLen(_, _)
ListFromLen(S, n) ==
    IF S = {} THEN <<>>
    ELSE LET same == {s \in S : Len(s) = n}
         IN  ListSome(same) \o ListFromLen(S \ same, n + 1)

\* a Python list made by iterating over a set: its members once each, in
\* an order of the set's own (here by length)
ListOf(S) == ListFromLen(S, 0)

\* a variant of generate_name_variations that returns the candidates unfiltered
generate_name_variations_Unfiltered(p) == ListOf(candidates(p))

generate_name_variations(p) ==
    ListOf({c \in candidates(p) : c # "" /\ Len(c) > 1})

(***************************************************************************)
(* The name parts handed to the generator: what parse_name returns for a   *)
(* name of one to three parts over NameAlphabet, written in order.         *)
(***************************************************************************)
NameAlphabet == {"J", "a"}

RECURSIVE StringsOfLen(_)
StringsOfLen(n) ==
    IF n = 0 THEN {""} ELSE {s \o c : s \in StringsOfLen(n - 1), c \in NameAlphabet}

NameStrings == UNION {StringsOfLen(n) : n \in 1..MaxPartLen}

FullOf(first, middle, last) ==
    LET fm == IF first # "" /\ middle # "" THEN first \o " " \o middle ELSE first \o middle
    IN  IF fm # "" /\ last # "" THEN fm \o " " \o last ELSE fm \o last

AllParts ==
    {NameParts(FullOf(f, m, l), f, m, l) :
        f \in NameStrings \cup {""}, m \in NameStrings \cup {""}, l \in NameStrings \cup {""}}

NameInit ==
    /\ parts \in AllParts
    /\ variations = <<>>
    /\ npc = "call"

Generate ==
    /\ npc = "call"
    /\ variations' = generate_name_variations(parts)
    /\ npc' = "done"
    /\ UNCHANGED parts
    /\ UNCHANGED <<urlVars, targetVars, scoreVars, searchVars>>

(***************************************************************************)
(* parse_name, for names of plain words: HumanName takes the first word as *)
(* the first name, the last of two or more as the last name, and the words *)
(* between as the middle name.                                             *)
(***************************************************************************)
RECURSIVE Words(_)
Words(s) ==
    IF s = "" THEN <<>>
    ELSE LET k == FindAny(s, {" "}, 1)
             head == Slice(s, 1, k - 1)
             rest == Words(Slice(s, k + 1, Len(s)))
         IN  IF head = "" THEN rest ELSE <<head>> \o rest

RECURSIVE JoinWords(_)
JoinWords(ws) ==
    IF ws = <<>> THEN ""
    ELSE IF Len(ws) = 1 THEN ws[1]
    ELSE ws[1] \o " " \o JoinWords(Tail(ws))

parse_name(full_name) ==
    LET ws == Words(full_name)
        n == Len(ws)
    IN  IF n = 0 THEN _empty_name_parts("")
        ELSE NameParts(JoinWords(ws), ws[1],
                       IF n > 2 THEN JoinWords(SubSeq(ws, 2, n - 1)) ELSE "",
                       IF n > 1 THEN ws[n] ELSE "")

(***************************************************************************)
(* fuzzy_name_match.  process.extractOne is rapidfuzz's: wratio[t] stands  *)
(* for the best score its scorer gives text t over the name variations.    *)
(***************************************************************************)
\* the thresholds compute_score passes
HandleThreshold == 80
TextThreshold == 70

\* None, for a title or a snippet that is not a string
None == "<None>"

Range(s) == {s[i] : i \in 1..Len(s)}

fuzzy_name_match(text, cands, threshold, wr) ==
    IF text = "" \/ cands = <<>> THEN FALSE
    ELSE wr[Lower(text)] >= threshold

(***************************************************************************)
(* compute_score, statement by statement.  spc is the statement reached:   *)
(* "handle" (line 354), "text" (368), "platform" (374), "keywords" (383),  *)
(* "done" (the return) or "raised" (an exception left the function).       *)
(***************************************************************************)
Platforms == {"linkedin.com", "facebook.com", "instagram.com"}

\* result.title + " " + result.snippet raises TypeError
ConcatRaises(r) == r.title = None \/ r.snippet = None

\* (result.title + " " + result.snippet).lower()
text_to_check(r) == Lower(r.title \o " " \o r.snippet)

\* a variant of TextScore in which the text is checked after a handle
\* match too and adds to it
TextScore_Additive(s, r, nv, wr) ==
    IF ~ConcatRaises(r) /\ fuzzy_name_match(text_to_check(r), nv, TextThreshold, wr)
    THEN s + 1 ELSE s

\* lines 368-372: score after the title and snippet check
TextScore(s, r, nv, wr) ==
    IF s = 0 /\ fuzzy_name_match(text_to_check(r), nv, TextThreshold, wr) THEN 1 ELSE s

\* lines 375-380: what the platform test adds
PlatformBonus(r) ==
    LET link_lower == Lower(r.link)
    IN  IF \E platform \in Platforms : Contains(link_lower, platform) THEN 1 ELSE 0

RECURSIVE KeywordHits(_, _)
\* lines 385-387: the keywords found in the text, one point each
KeywordHits(kws, text) ==
    IF kws = <<>> THEN 0
    ELSE (IF Contains(text, Lower(Head(kws))) THEN 1 ELSE 0) + KeywordHits(Tail(kws), text)

\* extra_keywords is given and not empty
Truthy(kws) == kws # None /\ kws # <<>>

\* lines 354-365
CS_Handle ==
    /\ spc = "handle"
    /\ extracted_username' = extract_username_from_url(result.link)
    /\ score' = IF /\ extracted_username' # ""
                   /\ fuzzy_name_match(extracted_username', name_variations,
                                       HandleThreshold, wratio)
                THEN 3 ELSE 0
    /\ spc' = "text"
    /\ UNCHANGED <<result, base>>
    /\ UNCHANGED <<urlVars, nameVars, targetVars, searchVars>>

\* lines 368-372
CS_Text ==
    /\ spc = "text"
    /\ IF score = 0 /\ ConcatRaises(result)
       THEN spc' = "raised" /\ UNCHANGED <<score, base>>
       ELSE /\ score' = TextScore(score, result, name_variations, wratio)
            /\ base' = score'
            /\ spc' = "platform"
    /\ UNCHANGED <<result, extracted_username>>
    /\ UNCHANGED <<urlVars, nameVars, targetVars, searchVars>>

\* lines 374-380
CS_Platform ==
    /\ spc = "platform"
    /\ score' = score + PlatformBonus(result)
    /\ spc' = "keywords"
    /\ UNCHANGED <<result, extracted_username, base>>
    /\ UNCHANGED <<urlVars, nameVars, targetVars, searchVars>>

\* lines 382-389
CS_Keywords ==
    /\ spc = "keywords"
    /\ IF Truthy(extra_keywords) /\ score > 0
       THEN IF ConcatRaises(result)
            THEN spc' = "raised" /\ UNCHANGED score
            ELSE /\ score' = score + KeywordHits(extra_keywords, text_to_check(result))
                 /\ spc' = "done"
       ELSE spc' = "done" /\ UNCHANGED score
    /\ UNCHANGED <<result, extracted_username, base>>
    /\ UNCHANGED <<urlVars, nameVars, targetVars, searchVars>>

compute_score == CS_Handle \/ CS_Text \/ CS_Platform \/ CS_Keywords


(***************************************************************************)
(* remove_duplicates and the sort of search_person.                        *)
(***************************************************************************)
RECURSIVE DedupeFrom(_, _)
\* the loop of remove_duplicates over the rest of the list
DedupeFrom(results, seen_urls) ==
    IF results = <<>> THEN <<>>
    ELSE LET r == Head(results)
         IN  IF r.link \notin seen_urls
             THEN <<r>> \o DedupeFrom(Tail(results), seen_urls \cup {r.link})
             ELSE DedupeFrom(Tail(results), seen_urls)

RECURSIVE remove_duplicates_KeepLast(_)
\* a variant of remove_duplicates that keeps the last occurrence of a link
remove_duplicates_KeepLast(results) ==
    IF results = <<>> THEN <<>>
    ELSE LET r == Head(results)
             rest == Tail(results)
         IN  IF \E i \in 1..Len(rest) : rest[i].link = r.link
             THEN remove_duplicates_KeepLast(rest)
             ELSE <<r>> \o remove_duplicates_KeepLast(rest)

remove_duplicates(results) == DedupeFrom(results, {})

\* where a stable descending sort places r in the sorted list s: behind
\* every element whose score is at least r's
InsertDesc(s, r) ==
    LET k == Cardinality({i \in 1..Len(s) : s[i].score >= r.score})
    IN  SubSeq(s, 1, k) \o <<r>> \o SubSeq(s, k + 1, Len(s))

RECURSIVE SortDesc(_)
SortDesc(s) ==
    IF s = <<>> THEN <<>>
    ELSE InsertDesc(SortDesc(SubSeq(s, 1, Len(s) - 1)), s[Len(s)])

RECURSIVE SortByScore_AscReversed(_)
\* a variant of SortByScore that sorts ascending and reverses the list, so
\* that equal scores come out in reverse order
SortByScore_AscReversed(s) ==
    IF s = <<>> THEN <<>>
    ELSE LET sorted == SortByScore_AscReversed(Tail(s))
             k == Cardinality({i \in 1..Len(sorted) : sorted[i].score >= s[1].score})
         IN  SubSeq(sorted, 1, k) \o <<s[1]>> \o SubSeq(sorted, k + 1, Len(sorted))

\* scored_results.sort(key=lambda x: x.score, reverse=True)
SortByScore(s) == SortDesc(s)

_result_to_dict(r) ==
    [title |-> r.title, link |-> r.link, snippet |-> r.snippet, score |-> r.score]

(***************************************************************************)
(* The targets and the results of the model.                               *)
(***************************************************************************)
SearchResult(title, link, snippet) ==
    [title |-> title, link |-> link, snippet |-> snippet, score |-> 0]

Names == {"Jane Doe", "J", " "}
KeywordLists == {None, <<"News">>, <<"paris", "jane">>}

ScoreLinks == {"https://www.linkedin.com/in/jane-doe-3b2f1a9",
               "https://www.linkedin.com/in/bob-smith",
               "https://example.com/bob?ref=facebook.com",
               "https://example.com/jane-doe",
               "https://instagram.com/123"}
ScoreCatalogue ==
    {SearchResult(t, l, s) :
        t \in {"Jane Doe", "News", None}, l \in ScoreLinks, s \in {"", "Engineer in Paris", None}}

SearchCatalogue ==
    {SearchResult("Jane Doe", "https://www.linkedin.com/in/jane-doe-3b2f1a9", ""),
     SearchResult("News", "https://instagram.com/123", ""),
     SearchResult("Jane Doe", "https://example.com/jane-doe?ref=facebook.com", ""),
     SearchResult(None, "https://instagram.com/123/", ""),
     SearchResult("News", "https://www.linkedin.com/in/jane-doe-3b2f1a9", "")}

\* the texts compute_score hands to fuzzy_name_match for the results rs
TextsOf(rs) ==
    ({extract_username_from_url(r.link) : r \in rs} \ {""})
    \cup {text_to_check(r) : r \in {x \in rs : ~ConcatRaises(x)}}

\* the scores the scorer may give: a variation itself scores 100, any other
\* text below, on either side of the two thresholds; nothing is scored when
\* there are no variations
Levels == {69, 70, 80}
Scorers(texts, nv) ==
    {f \in [texts -> Levels \cup {0, 100}] :
        \A t \in DOMAIN f :
            IF nv = <<>> THEN f[t] = 0
            ELSE IF t \in Range(nv) THEN f[t] = 100
            ELSE f[t] \in Levels}

(***************************************************************************)
(* search_person.  pc is the place reached: "start" (line 420), "search"   *)
(* (the query loop, whose results arrive one by one), "score" (the loop of *)
(* line 461, with compute_score running while spc is not "idle"), "sort"   *)
(* (line 467), "return" (line 472) and "done".                             *)
(***************************************************************************)
\* lines 420-429
Start ==
    /\ pc = "start"
    /\ IF Words(name) = <<>>
       THEN pc' = "done" /\ UNCHANGED name_variations
       ELSE /\ name_variations' = generate_name_variations(parse_name(name))
            /\ pc' = "search"
    /\ UNCHANGED <<name, extra_keywords, wratio, scoreVars, all_results, unique_results,
                   scored_results, idx, returned>>
    /\ UNCHANGED <<urlVars, nameVars>>

\* lines 438-440: a result of Google, whose title and snippet extract_results
\* has stripped (an item whose field is not a string is skipped there)
GoogleResult ==
    /\ pc = "search"
    /\ Len(all_results) < MaxResults
    /\ \E r \in {x \in SearchCatalogue : ~ConcatRaises(x)} :
           all_results' = Append(all_results, r)
    /\ UNCHANGED <<targetVars, scoreVars, unique_results, scored_results, idx, returned, pc>>
    /\ UNCHANGED <<urlVars, nameVars>>

\* lines 444-445: a result of DuckDuckGo, taken as the provider gives it
DdgResult ==
    /\ pc = "search"
    /\ Len(all_results) < MaxResults
    /\ \E r \in SearchCatalogue : all_results' = Append(all_results, r)
    /\ UNCHANGED <<targetVars, scoreVars, unique_results, scored_results, idx, returned, pc>>
    /\ UNCHANGED <<urlVars, nameVars>>

\* line 455, after the last query
RemoveDuplicates ==
    /\ pc = "search"
    /\ unique_results' = remove_duplicates(all_results)
    /\ idx' = 1
    /\ pc' = "score"
    /\ UNCHANGED <<targetVars, scoreVars, all_results, scored_results, returned>>
    /\ UNCHANGED <<urlVars, nameVars>>

\* line 462: the call of compute_score on the next result
CallScore ==
    /\ pc = "score" /\ spc = "idle"
    /\ idx <= Len(unique_results)
    /\ result' = unique_results[idx]
    /\ spc' = "handle"
    /\ UNCHANGED <<targetVars, extracted_username, score, base, searchVars>>
    /\ UNCHANGED <<urlVars, nameVars>>

\* lines 462-465: compute_score has returned; result is the object in
\* unique_results, so its score is set there too
Scored ==
    /\ pc = "score" /\ spc = "done"
    /\ IF score > 0
       THEN /\ unique_results' = [unique_results EXCEPT ![idx].score = score]
            /\ scored_results' = Append(scored_results, [result EXCEPT !.score = score])
       ELSE UNCHANGED <<unique_results, scored_results>>
    /\ idx' = idx + 1
    /\ spc' = "idle"
    /\ UNCHANGED <<targetVars, result, extracted_username, score, base, all_results,
                   returned, pc>>
    /\ UNCHANGED <<urlVars, nameVars>>

\* lines 474-476: the exception of compute_score reaches the handler of
\* search_person
ScoreFailed ==
    /\ pc = "score" /\ spc = "raised"
    /\ returned' = <<>>
    /\ pc' = "done"
    /\ spc' = "idle"
    /\ UNCHANGED <<targetVars, result, extracted_username, score, base, all_results,
                   unique_results, scored_results, idx>>
    /\ UNCHANGED <<urlVars, nameVars>>

\* line 467
Sort ==
    /\ pc = "score" /\ spc = "idle"
    /\ idx > Len(unique_results)
    /\ scored_results' = SortByScore(scored_results)
    /\ pc' = "return"
    /\ UNCHANGED <<targetVars, scoreVars, all_results, unique_results, idx, returned>>
    /\ UNCHANGED <<urlVars, nameVars>>

\* line 472
Return ==
    /\ pc = "return"
    /\ returned' = [i \in 1..Len(scored_results) |-> _result_to_dict(scored_results[i])]
    /\ pc' = "done"
    /\ UNCHANGED <<targetVars, scoreVars, all_results, unique_results, scored_results, idx>>
    /\ UNCHANGED <<urlVars, nameVars>>

(***************************************************************************)
(* Specifications.                                                         *)
(***************************************************************************)
UrlIdle == url = "" /\ username = "" /\ upc = "idle"
NameIdle == parts = _empty_name_parts("") /\ variations = <<>> /\ npc = "idle"
TargetIdle == name = "" /\ name_variations = <<>> /\ extra_keywords = None /\ wratio = <<>>
ScoreIdle == result = SearchResult("", "", "") /\ extracted_username = "" /\ score = 0
             /\ spc = "idle" /\ base = 0
SearchIdle == all_results = <<>> /\ unique_results = <<>> /\ scored_results = <<>>
              /\ idx = 0 /\ returned = <<>> /\ pc = "idle"

\* extract_username_from_url on every URL of Urls
InitUrl == UrlInit /\ NameIdle /\ TargetIdle /\ ScoreIdle /\ SearchIdle
NextUrl == Extract
SpecUrl == InitUrl /\ [][NextUrl]_vars

\* generate_name_variations on every record of AllParts
InitNames == NameInit /\ UrlIdle /\ TargetIdle /\ ScoreIdle /\ SearchIdle
NextNames == Generate
SpecNames == InitNames /\ [][NextNames]_vars

\* compute_score on every result of ScoreCatalogue, for every scorer
InitScore ==
    /\ name \in Names \ {" "}
    /\ name_variations = generate_name_variations(parse_name(name))
    /\ extra_keywords \in KeywordLists
    /\ result \in ScoreCatalogue
    /\ wratio \in Scorers(TextsOf({result}), name_variations)
    /\ extracted_username = "" /\ score = 0 /\ base = 0
    /\ spc = "handle"
    /\ UrlIdle /\ NameIdle /\ SearchIdle
NextScore == compute_score
SpecScore == InitScore /\ [][NextScore]_vars

\* search_person on the results of SearchCatalogue
InitSearch ==
    /\ name \in Names
    /\ name_variations = <<>>
    /\ extra_keywords \in {None, <<"News">>}
    /\ wratio \in Scorers(TextsOf(SearchCatalogue), generate_name_variations(parse_name(name)))
    /\ all_results = <<>> /\ unique_results = <<>> /\ scored_results = <<>>
    /\ idx = 0 /\ returned = <<>> /\ pc = "start"
    /\ ScoreIdle /\ UrlIdle /\ NameIdle
NextSearch ==
    \/ Start \/ GoogleResult \/ DdgResult \/ RemoveDuplicates
    \/ CallScore \/ compute_score \/ Scored \/ ScoreFailed
    \/ Sort \/ Return
SpecSearch == InitSearch /\ [][NextSearch]_vars

(***************************************************************************)
(* Properties.                                                             *)
(***************************************************************************)
\* the host of a link, as urlparse gives it
HostOf(link) == Netloc(Lower(link))
HostIsPlatform(link) == \E platform \in Platforms : Contains(HostOf(link), platform)

\* C1: the platform bonus never qualifies a result on its own: a result
\* whose base score is 0 leaves compute_score with score 0, on a platform
\* link too.
C1_PlatformNeverQualifies ==
    (spc = "done" /\ base = 0) => score = 0

\* C2: a Facebook or fb.com URL whose path contains /photos/, /events/,
\* /groups/ or /posts/ gives the empty string, also when that segment is
\* the first of the path.
C2_FacebookContentRejected ==
    (/\ upc = "done"
     /\ (Contains(HostOf(url), "facebook.com") \/ Contains(HostOf(url), "fb.com"))
     /\ \E x \in FacebookContent : Contains(UrlPath(Lower(url)), x))
    => username = ""

\* C3: an Instagram URL whose path contains /p/, /reel/, /stories/ or /tv/
\* gives the empty string, also when that segment is the first of the path.
C3_InstagramContentRejected ==
    (/\ upc = "done"
     /\ Contains(HostOf(url), "instagram.com")
     /\ \E x \in InstagramContent : Contains(UrlPath(Lower(url)), x))
    => username = ""

\* the handle h of a path /in/<h>, "" for any other path
InHandle(u) ==
    LET segs == Segments(UrlPath(Lower(u)))
    IN  IF Len(segs) = 2 /\ segs[1] = "in" THEN segs[2] ELSE ""

\* h without a trailing numeric suffix: a last "-xyz" of letters and digits
\* with a digit among them
NumericSuffixStripped(h) ==
    LET dashes == {i \in 1..Len(h) : Ch(h, i) = "-"}
        d == CHOOSE i \in dashes : \A j \in dashes : j <= i
    IN  IF /\ dashes # {}
           /\ d < Len(h)
           /\ \A j \in (d + 1)..Len(h) : Ch(h, j) \in Digits \cup LowerLetters
           /\ \E j \in (d + 1)..Len(h) : Ch(h, j) \in Digits
        THEN SubSeq(h, 1, d - 1) ELSE h

\* C4: for a LinkedIn URL of path /in/<h> the result is h with its trailing
\* numeric suffix stripped (for the handles this leaves longer than one
\* character).
C4_LinkedInNumericSuffixStripped ==
    (/\ upc = "done"
     /\ Contains(HostOf(url), "linkedin.com")
     /\ Len(NumericSuffixStripped(InHandle(url))) > 1)
    => username = NumericSuffixStripped(InHandle(url))

\* C5: a result whose scoring fails is dropped alone: every result that
\* scored above 0 is in what search_person returns.
C5_BadResultDroppedAlone ==
    pc = "done" =>
        \A i \in 1..Len(scored_results) :
            \E j \in 1..Len(returned) : returned[j].link = scored_results[i].link

\* out is in with its elements rearranged by a stable sort on descending score
IsStableRanking(in, out) ==
    /\ Len(out) = Len(in)
    /\ \E p \in [1..Len(in) -> 1..Len(in)] :
           /\ \A i, j \in 1..Len(in) : i # j => p[i] # p[j]
           /\ \A i \in 1..Len(in) : out[i] = in[p[i]]
           /\ \A i, j \in 1..Len(in) :
                  i < j => /\ out[i].score >= out[j].score
                           /\ out[i].score = out[j].score => p[i] < p[j]

\* C6: the ranking step outputs a permutation of the scored results, in
\* descending order of score, equal scores keeping their input order.
C6_RankingStablePermutation ==
    [][(pc = "score" /\ pc' = "return") => IsStableRanking(scored_results, scored_results')]_vars

\* the results of unique_results that scored above 0, in their order there
ScoredInOrder == SelectSeq(unique_results, LAMBDA r : r.score > 0)

\* a ranking of three results that moved one and kept a tie in input order
C6_Witness ==
    /\ pc = "return"
    /\ Len(scored_results) = 3
    /\ scored_results # ScoredInOrder
    /\ \E i, j \in 1..3 : i < j /\ scored_results[i].score = scored_results[j].score

\* the indexes of the results whose link has not appeared earlier
FirstSeen(in) == {m \in 1..Len(in) : \A k \in 1..(m - 1) : in[k].link # in[m].link}

\* C7: remove_duplicates keeps a result iff its link has not appeared
\* earlier: the output is the input's first occurrences in input order, has
\* no two results of equal link and is no longer than the input.
C7_DedupKeepsFirstSeen ==
    (pc = "score" /\ idx = 1 /\ spc = "idle") =>
        /\ Len(unique_results) = Cardinality(FirstSeen(all_results))
        /\ \A k \in 1..Len(unique_results) :
               \E m \in FirstSeen(all_results) :
                   /\ Cardinality({x \in FirstSeen(all_results) : x < m}) = k - 1
                   /\ unique_results[k] = all_results[m]
        /\ \A i, j \in 1..Len(unique_results) :
               i # j => unique_results[i].link # unique_results[j].link
        /\ Len(unique_results) <= Len(all_results)

\* a link seen twice with different titles, and one result dropped for it
C7_Witness ==
    /\ pc = "score" /\ idx = 1 /\ spc = "idle"
    /\ Len(all_results) = 3 /\ Len(unique_results) = 2
    /\ all_results[1].link = all_results[3].link
    /\ all_results[1].title # all_results[3].title

\* C8: for name parts with first and last not empty, the variations are not
\* empty, have no duplicates, and each is lowercase and longer than one
\* character.
C8_VariationsWellFormed ==
    (npc = "done" /\ parts.first # "" /\ parts.last # "") =>
        /\ variations # <<>>
        /\ \A i \in 1..Len(variations) :
               /\ Len(variations[i]) > 1
               /\ \A k \in 1..Len(variations[i]) : Ch(variations[i], k) \notin UpperLetters
        /\ \A i, j \in 1..Len(variations) : i # j => variations[i] # variations[j]

\* a capital one-letter first name, with a middle and a last name
C8_Witness ==
    /\ npc = "done"
    /\ parts.first = "J" /\ parts.middle # "" /\ parts.last # ""
    /\ Len(variations) > 8

\* C9: for a result of nonzero base score the platform bonus is added
\* exactly when the host of the link contains a platform.
C9_BonusIffHostIsPlatform ==
    (spc = "keywords" /\ base > 0) =>
        /\ score - base \in {0, 1}
        /\ (score - base = 1) <=> HostIsPlatform(result.link)

\* the scorer's best score for t reaches threshold
Reaches(t, threshold) == name_variations # <<>> /\ wratio[t] >= threshold

\* C10: the base score is 3 exactly when the handle of the link is not
\* empty and matches at 80, else 1 exactly when the lowercase title and
\* snippet match at 70, else 0; it is one of 0, 1 and 3.
C10_BaseScoreShortCircuit ==
    (spc \in {"platform", "keywords", "done"}) =>
        LET handle == extract_username_from_url(result.link)
        IN  /\ base = IF handle # "" /\ Reaches(handle, HandleThreshold) THEN 3
                      ELSE IF Reaches(Lower(result.title \o " " \o result.snippet),
                                      TextThreshold)
                           THEN 1 ELSE 0
            /\ base \in {0, 1, 3}

\* a handle match on a result whose text matches too
C10_Witness ==
    /\ spc = "done"
    /\ base = 3
    /\ ~ConcatRaises(result)
    /\ Reaches(text_to_check(result), TextThreshold)

====
